---- MODULE Spec2Model ----
(***************************************************************************)
(* certmon: one polling goroutine per configured domain probes the TLS     *)
(* certificate chain of the domain and records the earliest notAfter in a  *)
(* mutex-guarded map and in a Prometheus gauge; HandleStatus renders the   *)
(* map sorted by expiration.                                               *)
(*                                                                         *)
(* Time instants are whole days since 0001-01-01 UTC, the instant of Go's  *)
(* zero time.Time.  Domain names are byte sequences (Go strings).          *)
(***************************************************************************)
EXTENDS Integers, Sequences, FiniteSets, TLC

\* ------------------------------------------------------------------ bounds

\* notAfter values of presented certificates: 1..MaxNotAfter days after the
\* Unix epoch.
MaxNotAfter == 2
\* Longest certificate chain a server presents.
MaxChain == 2

\* ------------------------------------------------------------- time values

\* time.Time{} : the zero instant, 0001-01-01T00:00:00Z.
ZeroTime == 0

\* Days between 0001-01-01 and 1970-01-01 (Go: unixToInternal, in seconds).
UnixEpochDay == 719162

\* exp.Unix(): the instant relative to 1970-01-01.
Unix(t) == t - UnixEpochDay

\* float64(exp.Unix()): exact for every magnitude below 2^53, which covers
\* the whole range of time.Time.Unix() used here.
Float64(n) == n

\* exp_i.Before(exp_j)
Before(t, u) == t < u

NotAfters == { UnixEpochDay + k : k \in 1..MaxNotAfter }

\* ------------------------------------------------------------ domain names

NameA == <<97>>
NameAA == <<97, 97>>
NameB == <<98>>
NameC == <<99>>

\* domains[i] < domains[j] on Go strings: bytewise lexicographic order.
RECURSIVE StrLess(_, _)
StrLess(s, t) ==
    IF Len(t) = 0 THEN FALSE
    ELSE IF Len(s) = 0 THEN TRUE
    ELSE IF Head(s) # Head(t) THEN Head(s) < Head(t)
    ELSE StrLess(Tail(s), Tail(t))

\* The lists of domains main passes to NewCertMon (strings.Split of -hosts):
\* any list, also one that repeats a name.
Configs == { <<NameB, NameA>>, <<NameA, NameA>> }

\* --------------------------------------------------------------- Go maps

EmptyMap == [x \in {} |-> 0]

\* A store that resets every other key.
MapStoreClobber(m, k, v) ==
    [x \in (DOMAIN m) \cup {k} |-> IF x = k THEN v ELSE ZeroTime]

\* m[k] = v
MapStore(m, k, v) ==
    [x \in (DOMAIN m) \cup {k} |-> IF x = k THEN v ELSE m[x]]

\* m[k] as an expression: the zero value for a missing key.
MapLoad(m, k) == IF k \in DOMAIN m THEN m[k] ELSE ZeroTime

\* ------------------------------------------------- FindExpirationTime

ErrNil == "nil"
ErrDial == "dial tcp: connection refused"
ErrEmpty == "tls: received empty certificates message"
ErrHostname == "x509: certificate is not valid for host"

Chains == UNION { [1..n -> NotAfters] : n \in 0..MaxChain }

\* What the network does with one probe: whether the TCP connection and the
\* TLS handshake get through, whether the leaf certificate matches the host,
\* and the notAfter of each certificate the server sends.
Handshakes == [reachable : BOOLEAN, hostOk : BOOLEAN, chain : Chains]

\* tls.Dial without the handshake's rejection of an empty Certificate message.
TlsDialLax(in) == IF ~in.reachable THEN ErrDial ELSE ErrNil

\* tls.Dial("tcp", host+":443", nil): the error it returns.  The client
\* handshake of crypto/tls fails when the server's Certificate message is
\* empty, so a connection is only returned with at least one certificate.
TlsDial(in) ==
    IF ~in.reachable THEN ErrDial
    ELSE IF Len(in.chain) = 0 THEN ErrEmpty
    ELSE ErrNil

\* conn.VerifyHostname(host)
VerifyHostname(in) == IF in.hostOk THEN ErrNil ELSE ErrHostname

\* The loop of FindExpirationTime with the comparison the other way round.
RECURSIVE LatestFrom(_, _, _)
LatestFrom(chain, k, exp) ==
    IF k > Len(chain) THEN exp
    ELSE LatestFrom(chain, k + 1,
                    IF Before(exp, chain[k]) THEN chain[k] ELSE exp)

\* for _, cert := range PeerCertificates[1:] { if cert.NotAfter.Before(exp) ... }
RECURSIVE EarliestFrom(_, _, _)
EarliestFrom(chain, k, exp) ==
    IF k > Len(chain) THEN exp
    ELSE EarliestFrom(chain, k + 1,
                      IF Before(chain[k], exp) THEN chain[k] ELSE exp)

\* The result (exp, err); panic: PeerCertificates[0] on an empty slice.
FindExpirationTime(in) ==
    IF TlsDial(in) # ErrNil
      THEN [exp |-> ZeroTime, err |-> TlsDial(in), panic |-> FALSE]
    ELSE IF VerifyHostname(in) # ErrNil
      THEN [exp |-> ZeroTime, err |-> VerifyHostname(in), panic |-> FALSE]
    ELSE IF Len(in.chain) = 0
      THEN [exp |-> ZeroTime, err |-> ErrNil, panic |-> TRUE]
    ELSE [exp |-> EarliestFrom(in.chain, 2, in.chain[1]),
          err |-> ErrNil, panic |-> FALSE]

\* ------------------------------------------------------------- sort.Slice

\* The less function of HandleStatus with the primary comparison reversed.
LessDescending(m, x, y) ==
    LET exp_i == MapLoad(m, x)
        exp_j == MapLoad(m, y)
    IN  IF exp_i # exp_j THEN Before(exp_j, exp_i) ELSE StrLess(x, y)

\* The less function of HandleStatus without the secondary key.
LessNoTie(m, x, y) == Before(MapLoad(m, x), MapLoad(m, y))

\* The less function of HandleStatus on two domain names.  exp_i != exp_j
\* compares time.Time structs; every value stored is a UTC instant without
\* monotonic reading, for which that is inequality of instants.
Less(m, x, y) ==
    LET exp_i == MapLoad(m, x)
        exp_j == MapLoad(m, y)
    IN  IF exp_i # exp_j THEN Before(exp_i, exp_j) ELSE StrLess(x, y)

Swap(s, i, j) == [s EXCEPT ![i] = s[j], ![j] = s[i]]

\* sort.Slice on fewer than 13 elements is an insertion sort:
\*   for i := a+1; i < b; i++ { for j := i; j > a && less(j, j-1); j-- { swap } }
RECURSIVE InsertInner(_, _, _)
InsertInner(s, j, m) ==
    IF j > 1 /\ Less(m, s[j], s[j - 1])
      THEN InsertInner(Swap(s, j, j - 1), j - 1, m)
      ELSE s

RECURSIVE InsertOuter(_, _, _)
InsertOuter(s, i, m) ==
    IF i > Len(s) THEN s ELSE InsertOuter(InsertInner(s, i, m), i + 1, m)

SortSlice(s, m) == InsertOuter(s, 2, m)

\* for dom, _ := range cm.expirations: the keys in any order.
KeyOrders(m) ==
    LET n == Cardinality(DOMAIN m)
    IN  { p \in [1..n -> DOMAIN m] : \A a, b \in 1..n : a # b => p[a] # p[b] }

\* -------------------------------------------------------------------- state

VARIABLES
    cfg,          \* the domains argument of NewCertMon
    dial,         \* what the server of a recorded probe does (a Handshakes
                  \* record), NoDial when probes are not recorded
    ctor,         \* NewCertMon: index of the next domain of its range loop
    expirations,  \* cm.expirations
    mutex,        \* cm.mutex: Free, or who holds it
    cancelled,    \* cm.ctx is done
    gauge,        \* certExpirations: label value -> gauge value
    pc,           \* per goroutine: where it stands
    res,          \* per goroutine: (exp, err) of its FindExpirationTime call
    hpc,          \* HandleStatus: where it stands
    domains,      \* HandleStatus: its local slice
    lastRender,   \* history: rows of the latest response, <<>> once a
                  \* goroutine has stored into the map since
    repeated,     \* history: the latest response followed another one with
                  \* no store between the two
    panicked,     \* the process died of an unrecovered panic
    succeeded,    \* history: per domain, whether a probe of it has succeeded
    wrote         \* history: per goroutine, <<v>> for the value v of its last
                  \* store, <<>> before its first

vars == <<cfg, dial, ctor, expirations, mutex, cancelled, gauge, pc, res, hpc,
          domains, lastRender, repeated, panicked, succeeded, wrote>>

Free == <<"free">>
Handler == <<"handler">>
HeldBy(i) == <<"monitor", i>>
NoWrite == <<>>
NoRes == [exp |-> ZeroTime, err |-> ErrNil]
NoDial == [reachable |-> FALSE, hostOk |-> FALSE, chain |-> <<>>]

Monitors == 1..Len(cfg)
Configured == { cfg[i] : i \in Monitors }

Init ==
    /\ cfg \in Configs
    /\ dial = NoDial
    /\ ctor = 1
    /\ expirations = EmptyMap
    /\ mutex = Free
    /\ cancelled = FALSE
    /\ gauge = EmptyMap
    /\ pc = [i \in 1..Len(cfg) |-> "unstarted"]
    /\ res = [i \in 1..Len(cfg) |-> NoRes]
    /\ hpc = "idle"
    /\ domains = <<>>
    /\ lastRender = <<>>
    /\ repeated = FALSE
    /\ panicked = FALSE
    /\ succeeded = [d \in { cfg[i] : i \in 1..Len(cfg) } |-> FALSE]
    /\ wrote = [i \in 1..Len(cfg) |-> NoWrite]

\* ------------------------------------------------------------- NewCertMon

\* One iteration of the range loop: pre-populate the key, start the goroutine.
NewCertMonIter ==
    /\ ~panicked
    /\ ctor <= Len(cfg)
    /\ expirations' = MapStore(expirations, cfg[ctor], ZeroTime)
    /\ pc' = [pc EXCEPT ![ctor] = "select"]
    /\ ctor' = ctor + 1
    /\ UNCHANGED <<cfg, dial, mutex, cancelled, gauge, res, hpc, domains,
                   lastRender, repeated, panicked, succeeded, wrote>>

\* main's cancel()
Cancel ==
    /\ ~panicked
    /\ ~cancelled
    /\ cancelled' = TRUE
    /\ UNCHANGED <<cfg, dial, ctor, expirations, mutex, gauge, pc, res, hpc,
                   domains, lastRender, repeated, panicked, succeeded, wrote>>

\* ------------------------------------------------- the monitoring goroutine

\* A return on cancellation that is also taken between the gauge update
\* and the store.
ExitEarly(i) ==
    /\ ~panicked
    /\ pc[i] \in {"select", "lock"}
    /\ cancelled
    /\ pc' = [pc EXCEPT ![i] = "done"]
    /\ UNCHANGED <<cfg, dial, ctor, expirations, mutex, cancelled, gauge, res,
                   hpc, domains, lastRender, repeated, panicked, succeeded,
                   wrote>>

\* case <-cm.ctx.Done(): return
Exit(i) ==
    /\ ~panicked
    /\ pc[i] = "select"
    /\ cancelled
    /\ pc' = [pc EXCEPT ![i] = "done"]
    /\ UNCHANGED <<cfg, dial, ctor, expirations, mutex, cancelled, gauge, res, hpc,
                   domains, lastRender, repeated, panicked, succeeded, wrote>>

\* case <-ticker.C: a tick is pending; select may take it also when the
\* context is done.
Tick(i) ==
    /\ ~panicked
    /\ pc[i] = "select"
    /\ pc' = [pc EXCEPT ![i] = "sleep"]
    /\ UNCHANGED <<cfg, dial, ctor, expirations, mutex, cancelled, gauge, res, hpc,
                   domains, lastRender, repeated, panicked, succeeded, wrote>>

\* time.Sleep(sleepTime) is over; FindExpirationTime starts.
Sleep(i) ==
    /\ ~panicked
    /\ pc[i] = "sleep"
    /\ pc' = [pc EXCEPT ![i] = "probe"]
    /\ UNCHANGED <<cfg, dial, ctor, expirations, mutex, cancelled, gauge, res, hpc,
                   domains, lastRender, repeated, panicked, succeeded, wrote>>

\* exp, _ := FindExpirationTime(dom) returns r, or panics.
ProbeReturn(i, r) ==
    /\ ~panicked
    /\ pc[i] = "probe"
    /\ IF r.panic
         THEN /\ panicked' = TRUE
              /\ UNCHANGED <<pc, res, succeeded>>
         ELSE /\ res' = [res EXCEPT ![i] = [exp |-> r.exp, err |-> r.err]]
              /\ pc' = [pc EXCEPT ![i] = "gauge"]
              /\ succeeded' = [succeeded EXCEPT
                                  ![cfg[i]] = @ \/ r.err = ErrNil]
              /\ UNCHANGED panicked
    /\ UNCHANGED <<cfg, dial, ctor, expirations, mutex, cancelled, gauge, hpc,
                   domains, lastRender, repeated, wrote>>

\* What FindExpirationTime can do, over everything the network can do.
ProbeOutcomes == { FindExpirationTime(in) : in \in Handshakes }

\* exp, _ := FindExpirationTime(dom), whatever the network does.
Probe(i) == \E r \in ProbeOutcomes : ProbeReturn(i, r)

\* exp, _ := FindExpirationTime(dom) against the server recorded in dial.
ProbeDialled(i) == ProbeReturn(i, FindExpirationTime(dial))

\* certExpirations.WithLabelValues(dom).Set(float64(exp.Unix()))
SetGauge(i) ==
    /\ ~panicked
    /\ pc[i] = "gauge"
    /\ gauge' = MapStore(gauge, cfg[i], Float64(Unix(res[i].exp)))
    /\ pc' = [pc EXCEPT ![i] = "lock"]
    /\ UNCHANGED <<cfg, dial, ctor, expirations, mutex, cancelled, res, hpc,
                   domains, lastRender, repeated, panicked, succeeded, wrote>>

\* A Lock that also waits for the probes of the other goroutines, as if
\* FindExpirationTime ran under the mutex.
LockAfterProbes(i) ==
    /\ ~panicked
    /\ pc[i] = "lock"
    /\ mutex = Free
    /\ \A j \in Monitors \ {i} : pc[j] # "probe"
    /\ mutex' = HeldBy(i)
    /\ pc' = [pc EXCEPT ![i] = "store"]
    /\ UNCHANGED <<cfg, dial, ctor, expirations, cancelled, gauge, res, hpc,
                   domains, lastRender, repeated, panicked, succeeded, wrote>>

\* cm.mutex.Lock()
Lock(i) ==
    /\ ~panicked
    /\ pc[i] = "lock"
    /\ mutex = Free
    /\ mutex' = HeldBy(i)
    /\ pc' = [pc EXCEPT ![i] = "store"]
    /\ UNCHANGED <<cfg, dial, ctor, expirations, cancelled, gauge, res, hpc,
                   domains, lastRender, repeated, panicked, succeeded, wrote>>

\* A store whose key is the loop variable domain of NewCertMon instead of
\* the goroutine's parameter dom.
StoreLoopVariable(i) ==
    /\ ~panicked
    /\ pc[i] = "store"
    /\ expirations' = MapStore(expirations, cfg[ctor - 1], res[i].exp)
    /\ wrote' = [wrote EXCEPT ![i] = <<res[i].exp>>]
    /\ lastRender' = <<>>
    /\ repeated' = FALSE
    /\ pc' = [pc EXCEPT ![i] = "unlock"]
    /\ UNCHANGED <<cfg, dial, ctor, mutex, cancelled, gauge, res, hpc, domains,
                   panicked, succeeded>>

\* cm.expirations[dom] = exp
Store(i) ==
    /\ ~panicked
    /\ pc[i] = "store"
    /\ expirations' = MapStore(expirations, cfg[i], res[i].exp)
    /\ wrote' = [wrote EXCEPT ![i] = <<res[i].exp>>]
    /\ lastRender' = <<>>
    /\ repeated' = FALSE
    /\ pc' = [pc EXCEPT ![i] = "unlock"]
    /\ UNCHANGED <<cfg, dial, ctor, mutex, cancelled, gauge, res, hpc, domains,
                   panicked, succeeded>>

\* cm.mutex.Unlock(); exp goes out of scope at the end of the case.
Unlock(i) ==
    /\ ~panicked
    /\ pc[i] = "unlock"
    /\ mutex' = Free
    /\ res' = [res EXCEPT ![i] = NoRes]
    /\ pc' = [pc EXCEPT ![i] = "select"]
    /\ UNCHANGED <<cfg, dial, ctor, expirations, cancelled, gauge, hpc, domains,
                   lastRender, repeated, panicked, succeeded, wrote>>

MonitorStep(i) ==
    \/ Exit(i)
    \/ Tick(i)
    \/ Sleep(i)
    \/ Probe(i)
    \/ SetGauge(i)
    \/ Lock(i)
    \/ Store(i)
    \/ Unlock(i)

\* ------------------------------------------------------------ HandleStatus

\* A row of the table: domain and cm.expirations[domain].
Row(m, d) == [domain |-> d, exp |-> MapLoad(m, d)]

\* HandleStatus entered without taking the mutex.
HandleNoLock ==
    /\ ~panicked
    /\ hpc = "idle"
    /\ ctor > Len(cfg)
    /\ hpc' = "sort"
    /\ UNCHANGED <<cfg, dial, ctor, expirations, mutex, cancelled, gauge, pc, res,
                   domains, lastRender, repeated, panicked, succeeded, wrote>>

\* cm.mutex.Lock(); defer cm.mutex.Unlock().  main registers the handler
\* after NewCertMon has returned.
HandleLock ==
    /\ ~panicked
    /\ hpc = "idle"
    /\ ctor > Len(cfg)
    /\ mutex = Free
    /\ mutex' = Handler
    /\ hpc' = "sort"
    /\ UNCHANGED <<cfg, dial, ctor, expirations, cancelled, gauge, pc, res, domains,
                   lastRender, repeated, panicked, succeeded, wrote>>

\* Collect the keys in map iteration order, then sort.Slice.
HandleSort ==
    /\ ~panicked
    /\ hpc = "sort"
    /\ \E order \in KeyOrders(expirations) :
         domains' = SortSlice(order, expirations)
    /\ hpc' = "write"
    /\ UNCHANGED <<cfg, dial, ctor, expirations, mutex, cancelled, gauge, pc, res,
                   lastRender, repeated, panicked, succeeded, wrote>>

\* The fmt.Fprintf calls on the http.ResponseWriter: header, one row per
\* domain, footer.
HandleWrite ==
    /\ ~panicked
    /\ hpc = "write"
    /\ lastRender' = [k \in 1..Len(domains) |-> Row(expirations, domains[k])]
    /\ repeated' = (lastRender # <<>>)
    /\ hpc' = "return"
    /\ UNCHANGED <<cfg, dial, ctor, expirations, mutex, cancelled, gauge, pc, res,
                   domains, panicked, succeeded, wrote>>

\* return: the deferred cm.mutex.Unlock() runs.
HandleReturn ==
    /\ ~panicked
    /\ hpc = "return"
    /\ mutex' = Free
    /\ hpc' = "idle"
    /\ domains' = <<>>
    /\ UNCHANGED <<cfg, dial, ctor, expirations, cancelled, gauge, pc, res,
                   lastRender, repeated, panicked, succeeded, wrote>>

HandleStatus == HandleLock \/ HandleSort \/ HandleWrite \/ HandleReturn

\* ------------------------------------------------------------ specification

Next ==
    \/ NewCertMonIter
    \/ Cancel
    \/ \E i \in Monitors : Exit(i)
    \/ \E i \in Monitors : Tick(i)
    \/ \E i \in Monitors : Sleep(i)
    \/ \E i \in Monitors : Probe(i)
    \/ \E i \in Monitors : SetGauge(i)
    \/ \E i \in Monitors : Lock(i)
    \/ \E i \in Monitors : Store(i)
    \/ \E i \in Monitors : Unlock(i)
    \/ HandleLock
    \/ HandleSort
    \/ HandleWrite
    \/ HandleReturn

Spec == Init /\ [][Next]_vars

\* Every polling goroutine of every configuration.
AllMonitors == UNION { 1..Len(c) : c \in Configs }

\* What the scheduling guarantees.  Go's scheduler runs every runnable
\* goroutine; select chooses uniformly at random among its ready cases, so a
\* case that is ready again and again is eventually chosen; a sync.Mutex in
\* starvation mode hands the lock to the longest waiter.  Ticks, requests,
\* the cancellation and the client's reading of the response come from
\* outside and are not guaranteed.
Fairness ==
    /\ WF_vars(NewCertMonIter)
    /\ WF_vars(HandleSort)
    /\ WF_vars(HandleReturn)
    /\ \A i \in AllMonitors :
         /\ SF_vars(i \in Monitors /\ Exit(i))
         /\ WF_vars(i \in Monitors /\ Sleep(i))
         /\ WF_vars(i \in Monitors /\ Probe(i))
         /\ WF_vars(i \in Monitors /\ SetGauge(i))
         /\ SF_vars(i \in Monitors /\ Lock(i))
         /\ WF_vars(i \in Monitors /\ Store(i))
         /\ WF_vars(i \in Monitors /\ Unlock(i))

FairSpec == Init /\ [][Next]_vars /\ Fairness

\* ---------------------------------------------- HandleStatus on any table

\* The configuration the renderer is exercised on.
RenderConfigs == { <<NameB, NameAA, NameA, NameC>> }

\* Any table content: every goroutine has completed a cycle and waits in
\* its select.
RenderInit ==
    /\ cfg \in RenderConfigs
    /\ dial = NoDial
    /\ ctor = Len(cfg) + 1
    /\ expirations \in [{ cfg[i] : i \in 1..Len(cfg) } -> {ZeroTime} \cup NotAfters]
    /\ mutex = Free
    /\ cancelled = FALSE
    /\ gauge = [d \in DOMAIN expirations |-> Float64(Unix(expirations[d]))]
    /\ pc = [i \in 1..Len(cfg) |-> "select"]
    /\ res = [i \in 1..Len(cfg) |-> NoRes]
    /\ hpc = "idle"
    /\ domains = <<>>
    /\ lastRender = <<>>
    /\ repeated = FALSE
    /\ panicked = FALSE
    /\ succeeded = [d \in DOMAIN expirations |-> expirations[d] # ZeroTime]
    /\ wrote = [i \in 1..Len(cfg) |-> <<expirations[cfg[i]]>>]

RenderNext ==
    \/ HandleLock
    \/ HandleSort
    \/ HandleWrite
    \/ HandleReturn

RenderSpec == RenderInit /\ [][RenderNext]_vars

\* ------------------------------------- FindExpirationTime on any handshake

\* One domain, whose server answers every probe with the handshake dial.
ProberConfigs == { <<NameA>> }

ProberInit ==
    /\ cfg \in ProberConfigs
    /\ dial \in Handshakes
    /\ ctor = Len(cfg) + 1
    /\ expirations = [d \in { cfg[i] : i \in 1..Len(cfg) } |-> ZeroTime]
    /\ mutex = Free
    /\ cancelled = FALSE
    /\ gauge = EmptyMap
    /\ pc = [i \in 1..Len(cfg) |-> "select"]
    /\ res = [i \in 1..Len(cfg) |-> NoRes]
    /\ hpc = "idle"
    /\ domains = <<>>
    /\ lastRender = <<>>
    /\ repeated = FALSE
    /\ panicked = FALSE
    /\ succeeded = [d \in { cfg[i] : i \in 1..Len(cfg) } |-> FALSE]
    /\ wrote = [i \in 1..Len(cfg) |-> NoWrite]

ProberNext ==
    \/ \E i \in Monitors : Tick(i)
    \/ \E i \in Monitors : Sleep(i)
    \/ \E i \in Monitors : ProbeDialled(i)
    \/ \E i \in Monitors : SetGauge(i)
    \/ \E i \in Monitors : Lock(i)
    \/ \E i \in Monitors : Store(i)
    \/ \E i \in Monitors : Unlock(i)

ProberSpec == ProberInit /\ [][ProberNext]_vars

\* ------------------------------------------------------------------ claims

\* The entry of key k, <<>> when the map has no such key.
At(m, k) == IF k \in DOMAIN m THEN <<m[k]>> ELSE <<>>

\* The goroutine's probe returned an error.
Failed(i) == res[i].err # ErrNil

\* Rows in ascending order of expiration, equal expirations in ascending
\* order of domain name.
RowsSorted(r) ==
    \A k \in 1..(Len(r) - 1) :
        \/ r[k].exp < r[k + 1].exp
        \/ r[k].exp = r[k + 1].exp /\ StrLess(r[k].domain, r[k + 1].domain)

RowDomains(r) == { r[k].domain : k \in 1..Len(r) }

\* NewCertMon has returned.
Constructed == ctor > Len(cfg)

DistinctDomains == Cardinality(Configured) = Len(cfg)

\* C1: a store that follows a failed probe leaves the domain's table entry
\* as it was (stated for a constructed monitor of distinct domains).
C1_FailedProbeKeepsEntry ==
    [][\A i \in Monitors :
          (/\ Constructed /\ DistinctDomains
           /\ pc[i] = "store" /\ pc'[i] = "unlock" /\ Failed(i))
              => At(expirations', cfg[i]) = At(expirations, cfg[i])]_vars

\* C2: the gauge of a domain changes only in a step of a goroutine of that
\* domain whose probe succeeded, and to the Unix value of what it returned
\* (stated for a constructed monitor of distinct domains).
C2_GaugeOnlyFromSuccess ==
    [][\A d \in Configured :
          (Constructed /\ DistinctDomains /\ At(gauge', d) # At(gauge, d))
              => \E i \in Monitors :
                    /\ cfg[i] = d
                    /\ pc[i] = "gauge"
                    /\ ~Failed(i)
                    /\ At(gauge', d) = <<Float64(Unix(res[i].exp))>>]_vars

\* C3: the response lists the keys of the table, each once, in ascending
\* order of expiration and then of name, and every enumeration order of the
\* keys sorts to the same slice.
C3_RenderSorted ==
    hpc = "return" =>
        /\ RowsSorted(lastRender)
        /\ RowDomains(lastRender) = DOMAIN expirations
        /\ Len(lastRender) = Cardinality(DOMAIN expirations)
        /\ \A k \in 1..Len(lastRender) :
              lastRender[k].exp = expirations[lastRender[k].domain]
        /\ \A order \in KeyOrders(expirations) :
              SortSlice(order, expirations) = domains

\* A response over three or more domains with two equal known expirations
\* and an unknown one.
C3_Witness ==
    /\ hpc = "return"
    /\ Len(lastRender) >= 3
    /\ \E j, k \in 1..Len(lastRender) :
          /\ j # k
          /\ lastRender[j].exp = lastRender[k].exp
          /\ lastRender[j].exp # ZeroTime
    /\ \E k \in 1..Len(lastRender) : lastRender[k].exp = ZeroTime

\* C4: every response lists every configured domain exactly once; a domain
\* without a successful probe has the zero expiration, stands before every
\* row with a known expiration, and such domains are in ascending name order.
C4_RenderListsAll ==
    hpc = "return" =>
        /\ RowDomains(lastRender) = Configured
        /\ Len(lastRender) = Cardinality(Configured)
        /\ \A k \in 1..Len(lastRender) :
              ~succeeded[lastRender[k].domain] =>
                  /\ lastRender[k].exp = ZeroTime
                  /\ \A j \in 1..Len(lastRender) :
                        /\ lastRender[j].exp # ZeroTime => k < j
                        /\ (j < k /\ ~succeeded[lastRender[j].domain]) =>
                              StrLess(lastRender[j].domain, lastRender[k].domain)

\* A response with a never-probed domain and a domain of known expiration.
C4_Witness ==
    /\ hpc = "return"
    /\ \E j, k \in 1..Len(lastRender) :
          /\ ~succeeded[lastRender[k].domain]
          /\ lastRender[j].exp # ZeroTime

\* A response with two never-probed domains.
C4_WitnessUnknowns ==
    /\ hpc = "return"
    /\ \E j, k \in 1..Len(lastRender) :
          /\ j # k
          /\ ~succeeded[lastRender[k].domain]
          /\ ~succeeded[lastRender[j].domain]

\* C5: with distinct domains, a response shows for each goroutine that has
\* stored the value of its last store.
C5_NoLostUpdate ==
    (DistinctDomains /\ hpc = "return") =>
        \A i \in Monitors :
            wrote[i] # NoWrite =>
                /\ pc[i] \notin {"store", "unlock"}
                /\ \E k \in 1..Len(lastRender) :
                      /\ lastRender[k].domain = cfg[i]
                      /\ lastRender[k].exp = wrote[i][1]

\* A response after every goroutine has stored, with two different known
\* values.
C5_Witness ==
    /\ DistinctDomains
    /\ hpc = "return"
    /\ \A i \in Monitors : wrote[i] # NoWrite /\ wrote[i][1] # ZeroTime
    /\ \E i, j \in Monitors : wrote[i] # wrote[j]

\* C6: a step of the goroutine of one domain leaves the table entry and
\* the gauge of every other domain unchanged.
C6_OtherDomainsUntouched ==
    [][\A i \in Monitors :
          (pc[i] # "unstarted" /\ pc'[i] # pc[i]) =>
              \A b \in Configured \ {cfg[i]} :
                  /\ At(expirations', b) = At(expirations, b)
                  /\ At(gauge', b) = At(gauge, b)]_vars

\* A goroutine has stored the result of a failed probe while another domain
\* has a known expiration in the table and in the gauge.
C6_Witness ==
    \E i \in Monitors :
        /\ pc[i] = "unlock"
        /\ Failed(i)
        /\ \E b \in Configured \ {cfg[i]} :
              /\ At(expirations, b) # <<>>
              /\ At(expirations, b) # <<ZeroTime>>
              /\ At(gauge, b) = <<Float64(Unix(expirations[b]))>>

\* C7: no step of HandleStatus changes the table, and a response written
\* with no store since the previous response equals it.
C7_RenderIdempotent ==
    [][/\ hpc' # hpc => expirations' = expirations
       /\ (hpc = "write" /\ hpc' = "return" /\ lastRender # <<>>)
              => lastRender' = lastRender]_vars

\* A second response with no store since the first, over a table with equal
\* expirations.
C7_Witness ==
    /\ hpc = "return"
    /\ repeated
    /\ Len(lastRender) >= 2
    /\ lastRender[1].exp = lastRender[2].exp

AllExited == \A i \in Monitors : pc[i] = "done"

\* C9: once the context is cancelled every goroutine eventually returns
\* (stated for a constructed monitor of distinct domains).
C9_CancelledExits == (cancelled /\ Constructed /\ DistinctDomains) ~> AllExited

\* C10: whoever holds the mutex is at a map access: a goroutine at its
\* store, the handler at its key collection and sort, not at its writes to
\* the client.
C10_LockOnlyForMapAccess ==
    /\ \A i \in Monitors : mutex = HeldBy(i) => pc[i] \in {"store", "unlock"}
    /\ mutex = Handler => hpc \in {"sort", "return"}

\* C11: from the handler's first read of the table (its key collection)
\* to its last (the rows it writes) no store takes effect, and the rows it
\* writes are the table of that one state.
C11_RenderPointInTime ==
    [][/\ hpc \in {"sort", "write"} => expirations' = expirations
       /\ (hpc = "write" /\ hpc' = "return") =>
              /\ RowDomains(lastRender') = DOMAIN expirations
              /\ \A k \in 1..Len(lastRender') :
                    lastRender'[k].exp = expirations[lastRender'[k].domain]
              /\ \A k \in 1..Len(lastRender') :
                    lastRender'[k].domain = domains[k]]_vars

\* The handler has sorted and not yet written while a goroutine waits for
\* the mutex with a value that differs from the table's.
C11_Witness ==
    /\ hpc = "write"
    /\ \E i \in Monitors :
          /\ pc[i] = "lock"
          /\ res[i].exp # expirations[cfg[i]]

\* C12: no two goroutines are started for the same map key, so no two
\* probes of one domain are in flight together.
C12_OneWriterPerKey ==
    \A i, j \in Monitors :
        (i # j /\ pc[i] # "unstarted" /\ pc[j] # "unstarted") => cfg[i] # cfg[j]

\* The constructor: a value cm.mutex never takes, since NewCertMon never
\* locks it.
HeldByConstructor == <<"constructor">>

\* C13: every step that reads or writes the map is taken by the holder of
\* the mutex; for NewCertMon's pre-population this is asked once a goroutine
\* has been started.
C13_MapAccessUnderMutex ==
    [][/\ \A i \in Monitors :
            (pc[i] = "store" /\ pc'[i] = "unlock") => mutex = HeldBy(i)
       /\ (hpc \in {"sort", "write"} /\ hpc' # hpc) => mutex = Handler
       /\ (ctor' # ctor /\ \E i \in Monitors : pc[i] # "unstarted")
              => mutex = HeldByConstructor]_vars

\* C14: a goroutine at its select with the context done leaves the select
\* only by returning.
C14_CancelledSelectExits ==
    [][\A i \in Monitors :
          (Constructed /\ cancelled /\ pc[i] = "select")
              => pc'[i] \in {"select", "done"}]_vars

\* The scheduling when the probe of the first goroutine may never return
\* and every response is eventually written: as Fairness, without the
\* return of that probe, with the handler's writes.
BlockedProbeFairness ==
    /\ WF_vars(NewCertMonIter)
    /\ WF_vars(HandleSort)
    /\ WF_vars(HandleWrite)
    /\ WF_vars(HandleReturn)
    /\ \A i \in AllMonitors :
         /\ SF_vars(i \in Monitors /\ Exit(i))
         /\ WF_vars(i \in Monitors /\ Sleep(i))
         /\ WF_vars(i \in Monitors /\ i # 1 /\ Probe(i))
         /\ WF_vars(i \in Monitors /\ SetGauge(i))
         /\ SF_vars(i \in Monitors /\ Lock(i))
         /\ WF_vars(i \in Monitors /\ Store(i))
         /\ WF_vars(i \in Monitors /\ Unlock(i))

\* The claim is about two different domains: the configurations that name
\* no domain twice.
BlockedProbeInit ==
    /\ Init
    /\ \A i, j \in 1..Len(cfg) : i # j => cfg[i] # cfg[j]

BlockedProbeSpec == BlockedProbeInit /\ [][Next]_vars /\ BlockedProbeFairness

\* C15: whatever the probe of the first goroutine does, a tick taken by
\* another goroutine is followed by its probe and its store.
C15_OthersProgress ==
    \A i \in AllMonitors \ {1} :
        (i \in Monitors /\ pc[i] = "sleep") ~> (i \in Monitors /\ pc[i] = "unlock")

\* The first goroutine is still in its first probe while another one has
\* stored the result of a successful probe.
C15_Witness ==
    /\ pc[1] = "probe"
    /\ wrote[1] = NoWrite
    /\ \E i \in Monitors \ {1} :
          /\ pc[i] = "unlock"
          /\ ~Failed(i)

\* The handshake gets through, the host name matches and the server sent
\* certificates.
Verified(in) == in.reachable /\ in.hostOk /\ Len(in.chain) > 0

\* C18: for a verified handshake with a non-empty chain the probe returns,
\* without error, a notAfter of the chain that no certificate of the chain
\* precedes.
C18_ChainMinimum ==
    \A i \in Monitors :
        (pc[i] = "gauge" /\ Verified(dial)) =>
            /\ res[i].err = ErrNil
            /\ \E k \in 1..Len(dial.chain) : res[i].exp = dial.chain[k]
            /\ \A k \in 1..Len(dial.chain) : ~(dial.chain[k] < res[i].exp)

\* A probe has returned for a chain whose last certificate expires first.
C18_Witness ==
    \E i \in Monitors :
        /\ pc[i] = "gauge"
        /\ Verified(dial)
        /\ Len(dial.chain) >= 2
        /\ \A k \in 1..(Len(dial.chain) - 1) :
              dial.chain[Len(dial.chain)] < dial.chain[k]

\* C16: once NewCertMon has returned the keys of the table are the
\* configured domains, before and after every step, and a goroutine's store
\* changes no entry but that of its own domain.
C16_KeysFixed ==
    [][/\ Constructed =>
              /\ DOMAIN expirations = Configured
              /\ DOMAIN expirations' = Configured
       /\ \A i \in Monitors :
              (pc[i] = "store" /\ pc'[i] = "unlock") =>
                  /\ At(expirations', cfg[i]) = <<res[i].exp>>
                  /\ \A k \in (DOMAIN expirations \cup DOMAIN expirations')
                                  \ {cfg[i]} :
                        At(expirations', k) = At(expirations, k)]_vars

\* After construction a goroutine has stored a known expiration that
\* differs from the entry of another domain.
C16_Witness ==
    /\ Constructed
    /\ \E i \in Monitors :
          /\ pc[i] = "unlock"
          /\ expirations[cfg[i]] # ZeroTime
          /\ \E b \in Configured \ {cfg[i]} :
                expirations[b] # expirations[cfg[i]]

\* C17: a goroutine of a domain no other goroutine shares that has returned
\* either never stored, and then never set the gauge, or left the gauge and
\* the table entry of its domain at the value of its last store.
C17_NoPartialCycle ==
    \A i \in Monitors :
        (DistinctDomains /\ pc[i] = "done") =>
            \/ /\ wrote[i] = NoWrite
               /\ At(gauge, cfg[i]) = <<>>
               /\ At(expirations, cfg[i]) = <<ZeroTime>>
            \/ /\ wrote[i] # NoWrite
               /\ At(gauge, cfg[i]) = <<Float64(Unix(wrote[i][1]))>>
               /\ At(expirations, cfg[i]) = wrote[i]

\* A goroutine has returned after it stored a known expiration.
C17_Witness ==
    /\ DistinctDomains
    /\ \E i \in Monitors :
          /\ pc[i] = "done"
          /\ wrote[i] # NoWrite
          /\ wrote[i][1] # ZeroTime

\* Some goroutine of domain d has set the gauge and not yet stored.
Between(d) == \E i \in Monitors : cfg[i] = d /\ pc[i] \in {"lock", "store"}

\* Every goroutine of domain d has stored.
Written(d) == \A i \in Monitors : cfg[i] = d => wrote[i] # NoWrite

\* C19: the gauge of a written domain that no goroutine is updating is the
\* Unix value of its table entry (stated for the states in which every
\* goroutine of the domain has stored, hence after construction).
C19_GaugeMatchesTable ==
    \A d \in Configured :
        (Constructed /\ Written(d) /\ ~Between(d)) =>
            At(gauge, d) = <<Float64(Unix(MapLoad(expirations, d)))>>

====
